---------------------------- MODULE Spec2Model ----------------------------
(***************************************************************************)
(* dumpproxy: an HTTP forward proxy that dumps every exchange to capture   *)
(* files.  The model follows src/unnamed/part_000 (the tee-while-streaming *)
(* handler) and src/main.go (the handler that relays first and allocates   *)
(* the capture name afterwards).                                           *)
(*                                                                         *)
(* A request is one execution of proxy(); requests share only the capture  *)
(* directory (fs).  Every I/O call of the handler is one step, so that     *)
(* concurrent requests interleave at the file-system calls.                *)
(***************************************************************************)
EXTENDS Integers, Sequences, FiniteSets, TLC

(* ------------------------------ bounds ------------------------------- *)
NumCallers == 2     \* concurrent fname() calls in the allocator specification
MaxTime == 2        \* distinct second-resolution timestamps
MaxPre == 1         \* counters 0..MaxPre-1 may have a sentinel left by an earlier run
MaxBody == 2        \* longest request / response body, in bytes
MaxAttempts == 2    \* a maximum attempt count for fname (the source has none)

(* ------------------------- program constants -------------------------- *)
StatusInternalServerError == 500
StatusBadGateway == 502
BufSize == 16384

suffixReqHeaders == ".request_headers"
suffixReqBody == ".request_body"
suffixRespHeaders == ".response_headers"
suffixRespBody == ".response_body"

VARIABLES
  fs,           \* the capture directory: file name -> content
  pc,           \* each request's position in the handler
  datePrefix,   \* fname: the timestamp sampled by time.Now()
  idx,          \* fname: the counter being tried
  fNamePrefix,  \* proxy: the capture prefix ("" until fname returns)
  err,          \* proxy: the err variable
  statusCode,   \* proxy: the statusCode variable
  w,            \* the http.ResponseWriter of the request
  logOut,       \* the log lines the request has emitted
  open,         \* handles (files, bodies) the request holds open
  defers,       \* the closers deferred by proxy(), in order of registration
  r,            \* the inbound request: Header, Body (what is still unread)
  cr,           \* the outbound request: Header, the bytes the transport has read
                \* from its body, and what Do made of it (requests sent, first answer)
  resp,         \* the upstream response (NoResp until Do returns one)
  loop,         \* the header lines still to visit in the running header loop
  buf,          \* processResponseBody: the chunk in the transfer buffer, and brk
  failure,      \* history: the step that failed for this request ("none" when none)
  upstream      \* the responses the upstream server may give (it never changes)

vars == <<fs, pc, datePrefix, idx, fNamePrefix, err, statusCode, w, logOut, open,
          defers, r, cr, resp, loop, buf, failure, upstream>>

\* The whole handler is followed for one request at a time: requests share nothing
\* but the names in the capture directory, and the calls that arbitrate the names
\* (fname) are followed for concurrent callers in SpecAlloc.
Handlers == {1}
Callers == 1..NumCallers
Times == 1..MaxTime

(* ------------------------------ helpers ------------------------------- *)
Min(a, b) == IF a < b THEN a ELSE b

Range(s) == {s[i] : i \in 1..Len(s)}

IsPrefixOf(s, t) == Len(s) <= Len(t) /\ SubSeq(t, 1, Len(s)) = s

\* the bytes 1, 2, ..., n: every position carries a different byte
Body(n) == [i \in 1..n |-> i]

NoErr == "nil"
\* the empty string
NoPrefix == <<>>
NoResp == [StatusCode |-> 0, Header |-> <<>>, Body |-> <<>>]

\* datePrefix + strconv.Itoa(idx): the timestamp text has a fixed width and ends
\* with "-", so the concatenation determines both parts
PrefixOf(t, i) == <<t, i>>

\* prefix + suffix
FileName(prefix, suffix) == <<prefix, suffix>>

Exists(name) == name \in DOMAIN fs

\* os.OpenFile(O_CREATE|O_EXCL) on success, os.Create on success: the file is
\* there and empty afterwards
Created(name) == [n \in DOMAIN fs \cup {name} |-> IF n = name THEN <<>> ELSE fs[n]]

\* a Write of data to an open file, of which only the first k items arrive
Appended(name, data, k) == [fs EXCEPT ![name] = @ \o SubSeq(data, 1, k)]


(* ------------------------------ headers ------------------------------- *)
\* an http.Header: key -> the ordered list of its values (no values: key absent)
Keys == {"A", "B"}
EmptyHeader == [k \in Keys |-> <<>>]
HeaderMaps ==
  { EmptyHeader,
    [k \in Keys |-> IF k = "A" THEN <<"v1", "v2">> ELSE <<>>],
    [k \in Keys |-> IF k = "A" THEN <<"v1">> ELSE <<"v2">>] }

\* (variant: Header.Set, which replaces the values the key already has)
HeaderAdd_Set(h, k, v) == [h EXCEPT ![k] = <<v>>]
\* Header.Add(key, value)
HeaderAdd(h, k, v) == [h EXCEPT ![k] = Append(@, v)]

\* the <<key, value>> pairs of one key, in the order of its values
LinesOf(h, k) == [i \in 1..Len(h[k]) |-> <<k, h[k][i]>>]

\* `for header, values := range h { for _, value := range values {...} }`:
\* Go visits the keys of a map in any order, the values of a key in order
RangeOrders(h) == { LinesOf(h, "A") \o LinesOf(h, "B"), LinesOf(h, "B") \o LinesOf(h, "A") }

(* -------------------------- the ResponseWriter ------------------------- *)
NewResponseWriter ==
  [wroteHeader |-> FALSE, status |-> 0, calls |-> 0, header |-> EmptyHeader,
   sentHeader |-> EmptyHeader, body |-> <<>>]

\* w.WriteHeader(code): the first call sends the status line and the headers set
\* so far; net/http ignores every later call ("superfluous WriteHeader call")
WriteHeader(wp, code) ==
  IF wp.wroteHeader
    THEN [wp EXCEPT !.calls = @ + 1]
    ELSE [wp EXCEPT !.wroteHeader = TRUE, !.status = code, !.calls = @ + 1,
                    !.sentHeader = wp.header]

(* ------------------------------ logging ------------------------------- *)
\* log.Printf("%v %v %v %v %v", r.Host, extractAddr(r.RemoteAddr), statusCode, r.URL, fNamePrefix)
SummaryLine(sc, prefix) == [kind |-> "summary", statusCode |-> sc, fNamePrefix |-> prefix]
\* log.Print(err)
ErrorLine(e) == [kind |-> "error", err |-> e]

\* the deferred closure of proxy(): the summary line, then the error if there is one
DeferredLog(sc, prefix, e) ==
  <<SummaryLine(sc, prefix)>> \o (IF e # NoErr THEN <<ErrorLine(e)>> ELSE <<>>)

\* (variant: closeLogError returning before closer.Close())
closeLogError_Skipped(opn, closers) == opn
\* the deferred closeLogError calls run: of the handles opn, those handed to a
\* deferred closeLogError are closed (a Close that fails still releases the handle)
closeLogError(opn, closers) == opn \ Range(closers)

\* proxy() ends (final = "done": return; "panicked": a panic unwinds it) with the
\* locals sc, prefix, e and the handles opn open: the deferred closers run, then
\* the deferred log
Exit(p, final, sc, prefix, e, opn) ==
  /\ pc' = [pc EXCEPT ![p] = final]
  /\ statusCode' = [statusCode EXCEPT ![p] = sc]
  /\ fNamePrefix' = [fNamePrefix EXCEPT ![p] = prefix]
  /\ err' = [err EXCEPT ![p] = e]
  /\ open' = [open EXCEPT ![p] = closeLogError(opn, defers[p])]
  /\ logOut' = [logOut EXCEPT ![p] = @ \o DeferredLog(sc, prefix, e)]

\* statusCode = code; w.WriteHeader(statusCode); return
ErrorReturn(p, code, prefix, e, opn) ==
  /\ w' = [w EXCEPT ![p] = WriteHeader(@, code)]
  /\ Exit(p, "done", code, prefix, e, opn)

(* ------------------------------- fname -------------------------------- *)
Sentinel(t, i) == FileName(PrefixOf(t, i), ".request_headers")

\* (variant: the flags without os.O_EXCL, a create that succeeds on an existing file)
CanCreateExcl_NoExcl(name) == TRUE
\* (variant: the test of the create inverted)
CanCreateExcl_Inverted(name) == Exists(name)
\* os.O_RDWR|os.O_CREATE|os.O_EXCL: the create succeeds only when no file has the name
CanCreateExcl(name) == ~Exists(name)

\* (variant: the counter started at 1)
FnameNow_FromOne(p) ==
  /\ pc[p] = "fname"
  /\ \E t \in Times : datePrefix' = [datePrefix EXCEPT ![p] = t]
  /\ idx' = [idx EXCEPT ![p] = 1]
  /\ pc' = [pc EXCEPT ![p] = "fname_open"]
  /\ UNCHANGED <<fs, fNamePrefix, err, statusCode, w, logOut, open, defers, r, cr,
                 resp, loop, buf, failure, upstream>>

\* datePrefix := path.Join(*dumpDir, time.Now().Format(...)); idx := 0
\* (the wall clock: any timestamp of the window, not necessarily a later one)
FnameNow(p) ==
  /\ pc[p] = "fname"
  /\ \E t \in Times : datePrefix' = [datePrefix EXCEPT ![p] = t]
  /\ idx' = [idx EXCEPT ![p] = 0]
  /\ pc' = [pc EXCEPT ![p] = "fname_open"]
  /\ UNCHANGED <<fs, fNamePrefix, err, statusCode, w, logOut, open, defers, r, cr,
                 resp, loop, buf, failure, upstream>>

\* os.OpenFile fails, os.IsExist(err): idx++; continue
FnameExists(p) ==
  /\ pc[p] = "fname_open"
  /\ ~CanCreateExcl(Sentinel(datePrefix[p], idx[p]))
  /\ idx' = [idx EXCEPT ![p] = @ + 1]
  /\ UNCHANGED <<fs, pc, datePrefix, fNamePrefix, err, statusCode, w, logOut, open,
                 defers, r, cr, resp, loop, buf, failure, upstream>>

\* os.OpenFile succeeds: the sentinel now exists, f is open
FnameCreate(p) ==
  /\ pc[p] = "fname_open"
  /\ CanCreateExcl(Sentinel(datePrefix[p], idx[p]))
  /\ fs' = Created(Sentinel(datePrefix[p], idx[p]))
  /\ open' = [open EXCEPT ![p] = @ \cup {"sentinel"}]
  /\ pc' = [pc EXCEPT ![p] = "fname_close"]
  /\ UNCHANGED <<datePrefix, idx, fNamePrefix, err, statusCode, w, logOut, defers,
                 r, cr, resp, loop, buf, failure, upstream>>

\* os.OpenFile fails with another error (permissions, disk full, ...): panic(err).
\* The panic unwinds proxy(): its deferred log runs with the locals as they are;
\* net/http recovers the panic and drops the connection without a response.
FnamePanic(p) ==
  /\ pc[p] = "fname_open"
  /\ failure' = [failure EXCEPT ![p] = "fname_open"]
  /\ Exit(p, "panicked", statusCode[p], fNamePrefix[p], err[p], open[p])
  /\ UNCHANGED <<fs, datePrefix, idx, w, defers, r, cr, resp, loop, buf, upstream>>

\* return prefix, f.Close() with Close succeeding; proxy: fNamePrefix, err = fname()
FnameReturn(p) ==
  /\ pc[p] = "fname_close"
  /\ open' = [open EXCEPT ![p] = @ \ {"sentinel"}]
  /\ fNamePrefix' = [fNamePrefix EXCEPT ![p] = PrefixOf(datePrefix[p], idx[p])]
  /\ err' = [err EXCEPT ![p] = NoErr]
  /\ pc' = [pc EXCEPT ![p] = "create_req_body"]
  /\ UNCHANGED <<fs, datePrefix, idx, statusCode, w, logOut, defers, r, cr, resp,
                 loop, buf, failure, upstream>>

\* return prefix, f.Close() with Close failing: proxy gets the prefix and the
\* error, and takes its error path (lines 80-84)
FnameCloseError(p) ==
  /\ pc[p] = "fname_close"
  /\ failure' = [failure EXCEPT ![p] = "fname_close"]
  /\ ErrorReturn(p, StatusInternalServerError, PrefixOf(datePrefix[p], idx[p]),
                 "close", open[p] \ {"sentinel"})
  /\ UNCHANGED <<fs, datePrefix, idx, defers, r, cr, resp, loop, buf, upstream>>

Fname(p) ==
  \/ FnameNow(p)
  \/ FnameExists(p)
  \/ FnameCreate(p)
  \/ FnamePanic(p)
  \/ FnameReturn(p)
  \/ FnameCloseError(p)

(* ------------------- proxy (part_000): request capture ------------------ *)
ReqBodyFile(p) == FileName(fNamePrefix[p], suffixReqBody)
ReqHeadersFile(p) == FileName(fNamePrefix[p], suffixReqHeaders)
RespHeadersFile(p) == FileName(fNamePrefix[p], suffixRespHeaders)
RespBodyFile(p) == FileName(fNamePrefix[p], suffixRespBody)

\* fmt.Fprintf(file, ...) failing: nothing of the line, or a torn line, is in the file
FprintfFailed(name) == \E torn \in BOOLEAN : fs' = IF torn THEN Appended(name, <<"torn">>, 1) ELSE fs

\* the status proxy() sends when http.NewRequest fails (line 99)
NewRequestErrorStatus == StatusBadGateway

\* reqBodyFile, err = os.Create(fNamePrefix + suffixReqBody); defer closeLogError(reqBodyFile)
CreateReqBody(p) ==
  /\ pc[p] = "create_req_body"
  /\ fs' = Created(ReqBodyFile(p))
  /\ open' = [open EXCEPT ![p] = @ \cup {"reqBodyFile"}]
  /\ defers' = [defers EXCEPT ![p] = Append(@, "reqBodyFile")]
  /\ pc' = [pc EXCEPT ![p] = "new_request"]
  /\ UNCHANGED <<datePrefix, idx, fNamePrefix, err, statusCode, w, logOut, r, cr,
                 resp, loop, buf, failure, upstream>>

CreateReqBodyError(p) ==
  /\ pc[p] = "create_req_body"
  /\ failure' = [failure EXCEPT ![p] = "create_req_body"]
  /\ ErrorReturn(p, StatusInternalServerError, fNamePrefix[p], "create", open[p])
  /\ UNCHANGED <<fs, datePrefix, idx, defers, r, cr, resp, loop, buf, upstream>>

\* cr, err = http.NewRequest(r.Method, url, bodyReader); defer closeLogError(cr.Body)
\* (cr.Body is a NopCloser around the tee reader: closing it releases nothing)
NewRequest(p) ==
  /\ pc[p] = "new_request"
  /\ defers' = [defers EXCEPT ![p] = Append(@, "cr.Body")]
  /\ pc' = [pc EXCEPT ![p] = "create_req_headers"]
  /\ UNCHANGED <<fs, datePrefix, idx, fNamePrefix, err, statusCode, w, logOut, open,
                 r, cr, resp, loop, buf, failure, upstream>>

\* http.NewRequest fails (the method or "http://" + r.Host + r.RequestURI does not parse)
NewRequestError(p) ==
  /\ pc[p] = "new_request"
  /\ failure' = [failure EXCEPT ![p] = "new_request"]
  /\ ErrorReturn(p, NewRequestErrorStatus, fNamePrefix[p], "new_request", open[p])
  /\ UNCHANGED <<fs, datePrefix, idx, defers, r, cr, resp, loop, buf, upstream>>

\* reqHeadersFile, err = os.Create(fNamePrefix + suffixReqHeaders): the sentinel, truncated
CreateReqHeaders(p) ==
  /\ pc[p] = "create_req_headers"
  /\ fs' = Created(ReqHeadersFile(p))
  /\ open' = [open EXCEPT ![p] = @ \cup {"reqHeadersFile"}]
  /\ defers' = [defers EXCEPT ![p] = Append(@, "reqHeadersFile")]
  /\ pc' = [pc EXCEPT ![p] = "req_line"]
  /\ UNCHANGED <<datePrefix, idx, fNamePrefix, err, statusCode, w, logOut, r, cr,
                 resp, loop, buf, failure, upstream>>

CreateReqHeadersError(p) ==
  /\ pc[p] = "create_req_headers"
  /\ failure' = [failure EXCEPT ![p] = "create_req_headers"]
  /\ ErrorReturn(p, StatusInternalServerError, fNamePrefix[p], "create", open[p])
  /\ UNCHANGED <<fs, datePrefix, idx, defers, r, cr, resp, loop, buf, upstream>>

\* fmt.Fprintf(reqHeadersFile, "%v %v %v\n", r.Method, r.RequestURI, r.Proto);
\* then the range over r.Header starts, in an order of Go's choosing
ReqLine(p) ==
  /\ pc[p] = "req_line"
  /\ fs' = Appended(ReqHeadersFile(p), <<"request-line">>, 1)
  /\ \E order \in RangeOrders(r[p].Header) : loop' = [loop EXCEPT ![p] = order]
  /\ pc' = [pc EXCEPT ![p] = "req_headers"]
  /\ UNCHANGED <<datePrefix, idx, fNamePrefix, err, statusCode, w, logOut, open,
                 defers, r, cr, resp, buf, failure, upstream>>

ReqLineError(p) ==
  /\ pc[p] = "req_line"
  /\ FprintfFailed(ReqHeadersFile(p))
  /\ failure' = [failure EXCEPT ![p] = "req_line"]
  /\ ErrorReturn(p, StatusInternalServerError, fNamePrefix[p], "write", open[p])
  /\ UNCHANGED <<datePrefix, idx, defers, r, cr, resp, loop, buf, upstream>>

\* cr.Header.Add(header, value); fmt.Fprintf(reqHeadersFile, "%v: %v\n", header, value)
ReqHeader(p) ==
  /\ pc[p] = "req_headers"
  /\ loop[p] # <<>>
  /\ cr' = [cr EXCEPT ![p].Header = HeaderAdd(@, Head(loop[p])[1], Head(loop[p])[2])]
  /\ fs' = Appended(ReqHeadersFile(p), <<Head(loop[p])>>, 1)
  /\ loop' = [loop EXCEPT ![p] = Tail(@)]
  /\ UNCHANGED <<pc, datePrefix, idx, fNamePrefix, err, statusCode, w, logOut, open,
                 defers, r, resp, buf, failure, upstream>>

ReqHeaderError(p) ==
  /\ pc[p] = "req_headers"
  /\ loop[p] # <<>>
  /\ cr' = [cr EXCEPT ![p].Header = HeaderAdd(@, Head(loop[p])[1], Head(loop[p])[2])]
  /\ FprintfFailed(ReqHeadersFile(p))
  /\ failure' = [failure EXCEPT ![p] = "req_headers"]
  /\ ErrorReturn(p, StatusInternalServerError, fNamePrefix[p], "write", open[p])
  /\ UNCHANGED <<datePrefix, idx, defers, r, resp, loop, buf, upstream>>

(* --------------------- proxy (part_000): the dispatch ------------------- *)
UpstreamStatuses == {200, 302, 502}
Responses == [StatusCode : UpstreamStatuses, Header : HeaderMaps,
              Body : {Body(n) : n \in 0..MaxBody}]

\* (variant: a tee that hands on all it read, whatever the sink took)
TeeHanded_All(data, k) == data
\* io.TeeReader.Read: what the reader of the tee gets when the source gave data
\* and the sink took the first k items of it (k < Len(data): the Write failed)
TeeHanded(data, k) == SubSeq(data, 1, k)

\* resp, err = httpClient.Do(cr) begins: the loops of the range over r.Header are over
DoStart(p) ==
  /\ pc[p] = "req_headers"
  /\ loop[p] = <<>>
  /\ pc' = [pc EXCEPT ![p] = "do"]
  /\ UNCHANGED <<fs, datePrefix, idx, fNamePrefix, err, statusCode, w, logOut, open,
                 defers, r, cr, resp, loop, buf, failure, upstream>>

\* the transport writes the request while Do runs and, when the upstream answers
\* before it has the whole body, goes on while proxy() relays the response
TransportActive(p) ==
  pc[p] \in {"do", "resp_headers_create", "resp_status_line", "resp_headers",
             "resp_body_create", "resp_body_read", "resp_body_file_write",
             "resp_body_client_write"}

\* the transport reads cr.Body, the tee of r.Body and reqBodyFile: n bytes come
\* from r.Body, k of them reach the file, and the transport is handed what
\* TeeReader returns; a short write ends the reading with an error
TransportRead(p) ==
  /\ TransportActive(p)
  /\ ~cr[p].bodyErr
  /\ r[p].Body # <<>>
  /\ \E n \in 1..Min(Len(r[p].Body), BufSize) : \E k \in 0..n :
       /\ r' = [r EXCEPT ![p].Body = SubSeq(@, n + 1, Len(@))]
       /\ fs' = Appended(ReqBodyFile(p), SubSeq(r[p].Body, 1, n), k)
       /\ cr' = [cr EXCEPT ![p].read = @ \o TeeHanded(SubSeq(r[p].Body, 1, n), k),
                           ![p].bodyErr = (k < n)]
  /\ UNCHANGED <<pc, datePrefix, idx, fNamePrefix, err, statusCode, w, logOut, open,
                 defers, resp, loop, buf, failure, upstream>>

\* r.Body.Read fails (the client went away): the tee passes the error on
TransportReadError(p) ==
  /\ TransportActive(p)
  /\ ~cr[p].bodyErr
  /\ cr' = [cr EXCEPT ![p].bodyErr = TRUE]
  /\ UNCHANGED <<fs, pc, datePrefix, idx, fNamePrefix, err, statusCode, w, logOut,
                 open, defers, r, resp, loop, buf, failure, upstream>>

\* (variant: a CheckRedirect that returns nil, the default policy: follow)
skipRedirect_Follow == "nil"
\* func skipRedirect: return http.ErrUseLastResponse
skipRedirect == "ErrUseLastResponse"

\* the statuses on which http.Client consults CheckRedirect (the answers here
\* carry a Location)
RedirectStatuses == {301, 302, 303, 307, 308}

\* httpClient, CheckRedirect: skipRedirect: whether Do sends a request for the
\* redirect target after the answer `first`
Redirected(first) ==
  first.StatusCode \in RedirectStatuses /\ skipRedirect # "ErrUseLastResponse"

\* the answers Do may get to its second request, if it sends one
SecondAnswers(first) == IF Redirected(first) THEN upstream ELSE {first}

\* httpClient.Do when the upstream answers `first` and would answer `nxt` to a
\* request for the redirect target
ClientDo(first, nxt) ==
  IF Redirected(first) THEN [resp |-> nxt, sent |-> 2] ELSE [resp |-> first, sent |-> 1]

\* resp, err = httpClient.Do(cr) returns a response; defer closeLogError(resp.Body)
DoOk(p) ==
  /\ pc[p] = "do"
  /\ ~cr[p].bodyErr
  /\ \E first \in upstream : \E nxt \in SecondAnswers(first) :
       /\ resp' = [resp EXCEPT ![p] = ClientDo(first, nxt).resp]
       /\ cr' = [cr EXCEPT ![p].sent = ClientDo(first, nxt).sent,
                           ![p].first = first.StatusCode]
  /\ open' = [open EXCEPT ![p] = @ \cup {"resp.Body"}]
  /\ defers' = [defers EXCEPT ![p] = Append(@, "resp.Body")]
  /\ pc' = [pc EXCEPT ![p] = "resp_headers_create"]
  /\ UNCHANGED <<fs, datePrefix, idx, fNamePrefix, err, statusCode, w, logOut, r,
                 loop, buf, failure, upstream>>

\* (variant: the dispatch failure answered like a local failure)
DispatchErrorStatus_Internal == StatusInternalServerError
\* the status proxy() sends when httpClient.Do fails (line 140)
DispatchErrorStatus == StatusBadGateway

\* Do fails (dial, timeout, reset, or the request body could not be read): the
\* one request it sent is not sent again
DoError(p) ==
  /\ pc[p] = "do"
  /\ failure' = [failure EXCEPT ![p] = "do"]
  /\ cr' = [cr EXCEPT ![p].sent = 1]
  /\ ErrorReturn(p, DispatchErrorStatus, fNamePrefix[p], "dispatch", open[p])
  /\ UNCHANGED <<fs, datePrefix, idx, defers, r, resp, loop, buf, upstream>>

(* ------------------ proxy (part_000): processResponseHeaders ------------ *)
\* processResponseHeaders returned (0, err): its deferred close of respHeadersFile
\* has run; proxy: statusCode = 500; w.WriteHeader(statusCode); return (lines 147-151)
ResponseHeadersFailed(p, step, e) ==
  /\ failure' = [failure EXCEPT ![p] = step]
  /\ ErrorReturn(p, StatusInternalServerError, fNamePrefix[p], e,
                 open[p] \ {"respHeadersFile"})

\* respHeadersFile, err := os.Create(dumpFilePrefix + suffixRespHeaders)
RespHeadersCreate(p) ==
  /\ pc[p] = "resp_headers_create"
  /\ fs' = Created(RespHeadersFile(p))
  /\ open' = [open EXCEPT ![p] = @ \cup {"respHeadersFile"}]
  /\ pc' = [pc EXCEPT ![p] = "resp_status_line"]
  /\ UNCHANGED <<datePrefix, idx, fNamePrefix, err, statusCode, w, logOut, defers, r,
                 cr, resp, loop, buf, failure, upstream>>

RespHeadersCreateError(p) ==
  /\ pc[p] = "resp_headers_create"
  /\ ResponseHeadersFailed(p, "resp_headers_create", "create")
  /\ UNCHANGED <<fs, datePrefix, idx, defers, r, cr, resp, loop, buf, upstream>>

\* fmt.Fprintf(respHeadersFile, "%v\n", resp.Status); then the range over
\* resp.Header starts
RespStatusLine(p) ==
  /\ pc[p] = "resp_status_line"
  /\ fs' = Appended(RespHeadersFile(p), <<<<"status-line", resp[p].StatusCode>>>>, 1)
  /\ \E order \in RangeOrders(resp[p].Header) : loop' = [loop EXCEPT ![p] = order]
  /\ pc' = [pc EXCEPT ![p] = "resp_headers"]
  /\ UNCHANGED <<datePrefix, idx, fNamePrefix, err, statusCode, w, logOut, open,
                 defers, r, cr, resp, buf, failure, upstream>>

RespStatusLineError(p) ==
  /\ pc[p] = "resp_status_line"
  /\ FprintfFailed(RespHeadersFile(p))
  /\ ResponseHeadersFailed(p, "resp_status_line", "write")
  /\ UNCHANGED <<datePrefix, idx, defers, r, cr, resp, loop, buf, upstream>>

\* w.Header().Add(header, value); fmt.Fprintf(respHeadersFile, "%v: %v\n", header, value)
RespHeader(p) ==
  /\ pc[p] = "resp_headers"
  /\ loop[p] # <<>>
  /\ w' = [w EXCEPT ![p].header = HeaderAdd(@, Head(loop[p])[1], Head(loop[p])[2])]
  /\ fs' = Appended(RespHeadersFile(p), <<Head(loop[p])>>, 1)
  /\ loop' = [loop EXCEPT ![p] = Tail(@)]
  /\ UNCHANGED <<pc, datePrefix, idx, fNamePrefix, err, statusCode, logOut, open,
                 defers, r, cr, resp, buf, failure, upstream>>

\* the Fprintf of a header line fails: the header is already on w
RespHeaderError(p) ==
  /\ pc[p] = "resp_headers"
  /\ loop[p] # <<>>
  /\ FprintfFailed(RespHeadersFile(p))
  /\ failure' = [failure EXCEPT ![p] = "resp_headers"]
  /\ w' = [w EXCEPT ![p] =
             WriteHeader([@ EXCEPT !.header = HeaderAdd(@, Head(loop[p])[1], Head(loop[p])[2])],
                         StatusInternalServerError)]
  /\ Exit(p, "done", StatusInternalServerError, fNamePrefix[p], "write",
          open[p] \ {"respHeadersFile"})
  /\ UNCHANGED <<datePrefix, idx, defers, r, cr, resp, loop, buf, upstream>>

\* (variant: the status written inside the loop, before the range is over)
RangeOver_Early(p) == TRUE
\* the range over resp.Header has visited every value of every key
RangeOver(p) == loop[p] = <<>>

\* w.WriteHeader(resp.StatusCode); return resp.StatusCode, nil (respHeadersFile is
\* closed); proxy: statusCode = resp.StatusCode
RespWriteHeader(p) ==
  /\ pc[p] = "resp_headers"
  /\ RangeOver(p)
  /\ w' = [w EXCEPT ![p] = WriteHeader(@, resp[p].StatusCode)]
  /\ statusCode' = [statusCode EXCEPT ![p] = resp[p].StatusCode]
  /\ open' = [open EXCEPT ![p] = @ \ {"respHeadersFile"}]
  /\ pc' = [pc EXCEPT ![p] = "resp_body_create"]
  /\ UNCHANGED <<fs, datePrefix, idx, fNamePrefix, err, logOut, defers, r, cr, resp,
                 loop, buf, failure, upstream>>

(* ------------------- proxy (part_000): processResponseBody -------------- *)
\* processResponseBody returned err: its deferred close of respBodyFile has run;
\* proxy: statusCode = 500; w.WriteHeader(statusCode); return (lines 153-157)
ResponseBodyFailed(p, step, e) ==
  /\ failure' = [failure EXCEPT ![p] = step]
  /\ Exit(p, "done", StatusInternalServerError, fNamePrefix[p], e,
          open[p] \ {"respBodyFile"})

\* respBodyFile, err := os.Create(dumpFilePrefix + suffixRespBody)
RespBodyCreate(p) ==
  /\ pc[p] = "resp_body_create"
  /\ fs' = Created(RespBodyFile(p))
  /\ open' = [open EXCEPT ![p] = @ \cup {"respBodyFile"}]
  /\ pc' = [pc EXCEPT ![p] = "resp_body_read"]
  /\ UNCHANGED <<datePrefix, idx, fNamePrefix, err, statusCode, w, logOut, defers, r,
                 cr, resp, loop, buf, failure, upstream>>

RespBodyCreateError(p) ==
  /\ pc[p] = "resp_body_create"
  /\ w' = [w EXCEPT ![p] = WriteHeader(@, StatusInternalServerError)]
  /\ ResponseBodyFailed(p, "resp_body_create", "create")
  /\ UNCHANGED <<fs, datePrefix, idx, defers, r, cr, resp, loop, buf, upstream>>

\* n, err := respBody.Read(buf): n bytes (at most the buffer) with err nil, or the
\* last n bytes (n may be 0) with io.EOF
RespBodyRead(p) ==
  /\ pc[p] = "resp_body_read"
  /\ \E n \in 0..Min(Len(resp[p].Body), BufSize) : \E eof \in BOOLEAN :
       /\ eof => n = Len(resp[p].Body)
       /\ ~eof => n > 0
       /\ buf' = [buf EXCEPT ![p] = [data |-> SubSeq(resp[p].Body, 1, n), brk |-> eof]]
       /\ resp' = [resp EXCEPT ![p].Body = SubSeq(@, n + 1, Len(@))]
  /\ pc' = [pc EXCEPT ![p] = "resp_body_file_write"]
  /\ UNCHANGED <<fs, datePrefix, idx, fNamePrefix, err, statusCode, w, logOut, open,
                 defers, r, cr, loop, failure, upstream>>

\* Read fails with another error: return err (what Read delivered with it is dropped)
RespBodyReadError(p) ==
  /\ pc[p] = "resp_body_read"
  /\ w' = [w EXCEPT ![p] = WriteHeader(@, StatusInternalServerError)]
  /\ ResponseBodyFailed(p, "resp_body_read", "read")
  /\ UNCHANGED <<fs, datePrefix, idx, defers, r, cr, resp, loop, buf, upstream>>

\* (variant: the chunk goes to the client without having been written to the file)
RespBodyFileWrite_Dropped(p) ==
  /\ pc[p] = "resp_body_file_write"
  /\ pc' = [pc EXCEPT ![p] = "resp_body_client_write"]
  /\ UNCHANGED <<fs, datePrefix, idx, fNamePrefix, err, statusCode, w, logOut, open,
                 defers, r, cr, resp, loop, buf, failure, upstream>>

\* n2, err := respBodyFile.Write(buf[:n]) with err nil (an *os.File never reports a
\* short write without an error, so n2 = n)
RespBodyFileWrite(p) ==
  /\ pc[p] = "resp_body_file_write"
  /\ fs' = Appended(RespBodyFile(p), buf[p].data, Len(buf[p].data))
  /\ pc' = [pc EXCEPT ![p] = "resp_body_client_write"]
  /\ UNCHANGED <<datePrefix, idx, fNamePrefix, err, statusCode, w, logOut, open,
                 defers, r, cr, resp, loop, buf, failure, upstream>>

\* respBodyFile.Write fails after k < n bytes: return err
RespBodyFileWriteError(p) ==
  /\ pc[p] = "resp_body_file_write"
  /\ \E k \in 0..(Len(buf[p].data) - 1) : fs' = Appended(RespBodyFile(p), buf[p].data, k)
  /\ w' = [w EXCEPT ![p] = WriteHeader(@, StatusInternalServerError)]
  /\ ResponseBodyFailed(p, "resp_body_file_write", "write")
  /\ UNCHANGED <<datePrefix, idx, defers, r, cr, resp, loop, buf, upstream>>

\* n3, err := w.Write(buf[:n]) with err nil (net/http reports a short write with
\* an error, so n3 = n and neither assertion of the loop fires); after the chunk that came
\* with io.EOF the loop breaks, processResponseBody returns nil and proxy returns
RespBodyClientWrite(p) ==
  /\ pc[p] = "resp_body_client_write"
  /\ w' = [w EXCEPT ![p].body = @ \o buf[p].data]
  /\ IF buf[p].brk
       THEN /\ Exit(p, "done", statusCode[p], fNamePrefix[p], NoErr,
                    open[p] \ {"respBodyFile"})
            /\ UNCHANGED failure
       ELSE /\ pc' = [pc EXCEPT ![p] = "resp_body_read"]
            /\ UNCHANGED <<fNamePrefix, err, statusCode, logOut, open, failure>>
  /\ UNCHANGED <<fs, datePrefix, idx, defers, r, cr, resp, loop, buf, upstream>>

\* w.Write fails after k < n bytes reached the client: return err
RespBodyClientWriteError(p) ==
  /\ pc[p] = "resp_body_client_write"
  /\ \E k \in 0..(Len(buf[p].data) - 1) :
       w' = [w EXCEPT ![p] = WriteHeader([@ EXCEPT !.body = @ \o SubSeq(buf[p].data, 1, k)],
                                       StatusInternalServerError)]
  /\ ResponseBodyFailed(p, "resp_body_client_write", "write")
  /\ UNCHANGED <<fs, datePrefix, idx, defers, r, cr, resp, loop, buf, upstream>>

(* ------------------------- the handler, part_000 ------------------------ *)
Proxy(p) ==
  \/ Fname(p)
  \/ CreateReqBody(p) \/ CreateReqBodyError(p)
  \/ NewRequest(p) \/ NewRequestError(p)
  \/ CreateReqHeaders(p) \/ CreateReqHeadersError(p)
  \/ ReqLine(p) \/ ReqLineError(p)
  \/ ReqHeader(p) \/ ReqHeaderError(p)
  \/ DoStart(p) \/ TransportRead(p) \/ TransportReadError(p) \/ DoOk(p) \/ DoError(p)
  \/ RespHeadersCreate(p) \/ RespHeadersCreateError(p)
  \/ RespStatusLine(p) \/ RespStatusLineError(p)
  \/ RespHeader(p) \/ RespHeaderError(p) \/ RespWriteHeader(p)
  \/ RespBodyCreate(p) \/ RespBodyCreateError(p)
  \/ RespBodyRead(p) \/ RespBodyReadError(p)
  \/ RespBodyFileWrite(p) \/ RespBodyFileWriteError(p)
  \/ RespBodyClientWrite(p) \/ RespBodyClientWriteError(p)

(* --------------------------- proxy of main.go --------------------------- *)
\* log.Printf("%v %v %v %v %v", r.Host, resp.StatusCode, bodySize, r.URL, fNamePrefix)
MainSummaryLine(sc, size, prefix) ==
  [kind |-> "summary", statusCode |-> sc, bodySize |-> size, fNamePrefix |-> prefix]

\* proxy() of main.go ends, having printed lines: its deferred closers run (it
\* defers no log)
MainExit(p, final, lines, opn) ==
  /\ pc' = [pc EXCEPT ![p] = final]
  /\ open' = [open EXCEPT ![p] = closeLogError(opn, defers[p])]
  /\ logOut' = [logOut EXCEPT ![p] = @ \o lines]

\* cr, err := http.NewRequest(r.Method, url, r.Body); defer closeLogError(cr.Body)
MainNewRequest(p) ==
  /\ pc[p] = "main_new_request"
  /\ defers' = [defers EXCEPT ![p] = Append(@, "cr.Body")]
  /\ pc' = [pc EXCEPT ![p] = "main_do"]
  /\ UNCHANGED <<fs, datePrefix, idx, fNamePrefix, err, statusCode, w, logOut, open,
                 r, cr, resp, loop, buf, failure, upstream>>

\* log.Print(err); w.WriteHeader(http.StatusBadGateway); return
MainNewRequestError(p) ==
  /\ pc[p] = "main_new_request"
  /\ failure' = [failure EXCEPT ![p] = "new_request"]
  /\ w' = [w EXCEPT ![p] = WriteHeader(@, StatusBadGateway)]
  /\ MainExit(p, "done", <<ErrorLine("new_request")>>, open[p])
  /\ UNCHANGED <<fs, datePrefix, idx, fNamePrefix, err, statusCode, defers, r, cr,
                 resp, loop, buf, upstream>>

\* inside Do the transport reads cr.Body, which is r.Body itself
MainTransportRead(p) ==
  /\ pc[p] = "main_do"
  /\ r[p].Body # <<>>
  /\ \E n \in 1..Min(Len(r[p].Body), BufSize) :
       /\ r' = [r EXCEPT ![p].Body = SubSeq(@, n + 1, Len(@))]
       /\ cr' = [cr EXCEPT ![p].read = @ \o SubSeq(r[p].Body, 1, n)]
  /\ UNCHANGED <<fs, pc, datePrefix, idx, fNamePrefix, err, statusCode, w, logOut,
                 open, defers, resp, loop, buf, failure, upstream>>

\* resp, err := httpClient.Do(cr); defer closeLogError(resp.Body); the range over
\* resp.Header starts
MainDoOk(p) ==
  /\ pc[p] = "main_do"
  /\ \E first \in upstream : \E nxt \in SecondAnswers(first) :
       /\ resp' = [resp EXCEPT ![p] = ClientDo(first, nxt).resp]
       /\ cr' = [cr EXCEPT ![p].sent = ClientDo(first, nxt).sent,
                           ![p].first = first.StatusCode]
       /\ \E order \in RangeOrders(ClientDo(first, nxt).resp.Header) :
            loop' = [loop EXCEPT ![p] = order]
  /\ open' = [open EXCEPT ![p] = @ \cup {"resp.Body"}]
  /\ defers' = [defers EXCEPT ![p] = Append(@, "resp.Body")]
  /\ pc' = [pc EXCEPT ![p] = "main_headers"]
  /\ UNCHANGED <<fs, datePrefix, idx, fNamePrefix, err, statusCode, w, logOut, r,
                 buf, failure, upstream>>

\* log.Print(err); w.WriteHeader(http.StatusBadGateway); return
MainDoError(p) ==
  /\ pc[p] = "main_do"
  /\ failure' = [failure EXCEPT ![p] = "do"]
  /\ w' = [w EXCEPT ![p] = WriteHeader(@, StatusBadGateway)]
  /\ cr' = [cr EXCEPT ![p].sent = 1]
  /\ MainExit(p, "done", <<ErrorLine("dispatch")>>, open[p])
  /\ UNCHANGED <<fs, datePrefix, idx, fNamePrefix, err, statusCode, defers, r,
                 resp, loop, buf, upstream>>

\* w.Header().Add(header, value)
MainHeader(p) ==
  /\ pc[p] = "main_headers"
  /\ loop[p] # <<>>
  /\ w' = [w EXCEPT ![p].header = HeaderAdd(@, Head(loop[p])[1], Head(loop[p])[2])]
  /\ loop' = [loop EXCEPT ![p] = Tail(@)]
  /\ UNCHANGED <<fs, pc, datePrefix, idx, fNamePrefix, err, statusCode, logOut, open,
                 defers, r, cr, resp, buf, failure, upstream>>

\* w.WriteHeader(resp.StatusCode)
MainWriteHeader(p) ==
  /\ pc[p] = "main_headers"
  /\ loop[p] = <<>>
  /\ w' = [w EXCEPT ![p] = WriteHeader(@, resp[p].StatusCode)]
  /\ pc' = [pc EXCEPT ![p] = "main_copy"]
  /\ UNCHANGED <<fs, datePrefix, idx, fNamePrefix, err, statusCode, logOut, open,
                 defers, r, cr, resp, loop, buf, failure, upstream>>

\* io.Copy(w, resp.Body): one chunk read and written
MainCopyChunk(p) ==
  /\ pc[p] = "main_copy"
  /\ resp[p].Body # <<>>
  /\ \E n \in 1..Min(Len(resp[p].Body), BufSize) :
       /\ w' = [w EXCEPT ![p].body = @ \o SubSeq(resp[p].Body, 1, n)]
       /\ resp' = [resp EXCEPT ![p].Body = SubSeq(@, n + 1, Len(@))]
  /\ UNCHANGED <<fs, pc, datePrefix, idx, fNamePrefix, err, statusCode, logOut, open,
                 defers, r, cr, loop, buf, failure, upstream>>

\* io.Copy fails (a read or a write error): log.Print(err); return
MainCopyError(p) ==
  /\ pc[p] = "main_copy"
  /\ failure' = [failure EXCEPT ![p] = "copy"]
  /\ MainExit(p, "done", <<ErrorLine("copy")>>, open[p])
  /\ UNCHANGED <<fs, datePrefix, idx, fNamePrefix, err, statusCode, w, defers, r, cr,
                 resp, loop, buf, upstream>>

\* io.Copy reaches io.EOF and returns bodySize; fNamePrefix, err := fname() begins
MainCopyDone(p) ==
  /\ pc[p] = "main_copy"
  /\ resp[p].Body = <<>>
  /\ pc' = [pc EXCEPT ![p] = "fname"]
  /\ UNCHANGED <<fs, datePrefix, idx, fNamePrefix, err, statusCode, w, logOut, open,
                 defers, r, cr, resp, loop, buf, failure, upstream>>

\* fname panics: the panic unwinds proxy(), which has deferred closers only
MainFnamePanic(p) ==
  /\ pc[p] = "fname_open"
  /\ failure' = [failure EXCEPT ![p] = "fname_open"]
  /\ MainExit(p, "panicked", <<>>, open[p])
  /\ UNCHANGED <<fs, datePrefix, idx, fNamePrefix, err, statusCode, w, defers, r, cr,
                 resp, loop, buf, upstream>>

\* fname returns (prefix, nil): the summary line, and proxy() ends
MainFnameReturn(p) ==
  /\ pc[p] = "fname_close"
  /\ fNamePrefix' = [fNamePrefix EXCEPT ![p] = PrefixOf(datePrefix[p], idx[p])]
  /\ MainExit(p, "done",
              <<MainSummaryLine(resp[p].StatusCode, Len(w[p].body),
                                PrefixOf(datePrefix[p], idx[p]))>>,
              open[p] \ {"sentinel"})
  /\ UNCHANGED <<fs, datePrefix, idx, err, statusCode, w, defers, r, cr, resp, loop,
                 buf, failure, upstream>>

\* fname returns (prefix, err) from f.Close(): log.Print(err), then the summary line
MainFnameCloseError(p) ==
  /\ pc[p] = "fname_close"
  /\ fNamePrefix' = [fNamePrefix EXCEPT ![p] = PrefixOf(datePrefix[p], idx[p])]
  /\ err' = [err EXCEPT ![p] = "close"]
  /\ failure' = [failure EXCEPT ![p] = "fname_close"]
  /\ MainExit(p, "done",
              <<ErrorLine("close"),
                MainSummaryLine(resp[p].StatusCode, Len(w[p].body),
                                PrefixOf(datePrefix[p], idx[p]))>>,
              open[p] \ {"sentinel"})
  /\ UNCHANGED <<fs, datePrefix, idx, statusCode, w, defers, r, cr, resp, loop, buf, upstream>>

MainProxy(p) ==
  \/ MainNewRequest(p) \/ MainNewRequestError(p)
  \/ MainTransportRead(p) \/ MainDoOk(p) \/ MainDoError(p)
  \/ MainHeader(p) \/ MainWriteHeader(p)
  \/ MainCopyChunk(p) \/ MainCopyError(p) \/ MainCopyDone(p)
  \/ FnameNow(p) \/ FnameExists(p) \/ FnameCreate(p)
  \/ MainFnamePanic(p) \/ MainFnameReturn(p) \/ MainFnameCloseError(p)

(* ---------------------------- initial state ---------------------------- *)
\* sentinels left in the directory by earlier requests or runs
OldSentinels == {Sentinel(t, i) : t \in Times, i \in 0..(MaxPre - 1)}

InitFor(P, start, Reqs, Dirs, Ups) ==
  /\ \E old \in Dirs : fs = [n \in old |-> <<"old">>]
  /\ pc = [p \in P |-> start]
  /\ datePrefix = [p \in P |-> 0]
  /\ idx = [p \in P |-> 0]
  /\ fNamePrefix = [p \in P |-> NoPrefix]
  /\ err = [p \in P |-> NoErr]
  /\ statusCode = [p \in P |-> 0]
  /\ w = [p \in P |-> NewResponseWriter]
  /\ logOut = [p \in P |-> <<>>]
  /\ open = [p \in P |-> {}]
  /\ defers = [p \in P |-> <<>>]
  /\ r \in [P -> Reqs]
  /\ cr = [p \in P |-> [Header |-> EmptyHeader, read |-> <<>>, bodyErr |-> FALSE,
                         sent |-> 0, first |-> 0]]
  /\ resp = [p \in P |-> NoResp]
  /\ loop = [p \in P |-> <<>>]
  /\ buf = [p \in P |-> [data |-> <<>>, brk |-> FALSE]]
  /\ failure = [p \in P |-> "none"]
  /\ upstream = Ups

(* ----------------- concurrent fname() calls on their own ---------------- *)
\* fname reads nothing but the existence of sentinel files, and no step of the
\* handler removes a file: the calls are checked here without the rest of proxy()
InitAlloc == InitFor(Callers, "fname", {[Header |-> EmptyHeader, Body |-> <<>>]},
                     SUBSET OldSentinels, Responses)
NextAlloc == \E p \in Callers : Fname(p)
SpecAlloc == InitAlloc /\ [][NextAlloc]_vars

\* the Go scheduler runs every runnable goroutine, and os.OpenFile and f.Close
\* return: a call that can take a step of fname eventually takes one
FairAlloc == \A p \in Callers : WF_vars(Fname(p))
\* the directory at the start: empty, old sentinels for the first timestamp only,
\* or old sentinels for every timestamp
FairDirs == {{}, {Sentinel(1, i) : i \in 0..(MaxPre - 1)}, OldSentinels}
InitAllocFair == InitFor(Callers, "fname", {[Header |-> EmptyHeader, Body |-> <<>>]},
                         FairDirs, Responses)
SpecAllocFair == InitAllocFair /\ [][NextAlloc]_vars /\ FairAlloc

(* ----------------------- the handler of part_000 ----------------------- *)
Requests == [Header : HeaderMaps, Body : {Body(n) : n \in 0..MaxBody}]
Init == InitFor(Handlers, "fname", Requests, {{}, OldSentinels}, Responses)
Next == \E p \in Handlers : Proxy(p)
Spec == Init /\ [][Next]_vars

(* ------------------------ the handler of main.go ------------------------ *)
InitMain == InitFor(Handlers, "main_new_request", Requests, {{}, OldSentinels}, Responses)
NextMain == \E p \in Handlers : MainProxy(p)
SpecMain == InitMain /\ [][NextMain]_vars

(* --------------------- two requests served concurrently ----------------- *)
\* net/http runs proxy() in one goroutine per connection: two requests, each with
\* one header line and a one-byte body, answered alike, interleaved freely
Pair == {1, 2}
PairHeader == [k \in Keys |-> IF k = "A" THEN <<"v1">> ELSE <<>>]
PairRequests == {[Header |-> PairHeader, Body |-> Body(1)]}
PairResponses == {[StatusCode |-> 200, Header |-> PairHeader, Body |-> Body(1)]}
InitPair == InitFor(Pair, "fname", PairRequests, {{}, OldSentinels}, PairResponses)
NextPair == \E p \in Pair : Proxy(p)
SpecPair == InitPair /\ [][NextPair]_vars


(* ============================== properties ============================== *)
Ended(p) == pc[p] \in {"done", "panicked"}

\* the summary lines among the log lines of a request
Summaries(p) == SelectSeq(logOut[p], LAMBDA l : l.kind = "summary")

\* what has been written to a capture file of the request (nothing when the file
\* was never created)
Written(name) == IF Exists(name) THEN fs[name] ELSE <<>>

\* C1: no two fname() calls that return a prefix return the same prefix, also
\* when they sample the same timestamp; and a returned prefix is never one whose
\* sentinel was already in the directory: the caller created the sentinel itself.
C1_UniquePrefix ==
  /\ \A p, q \in DOMAIN pc :
       (p # q /\ fNamePrefix[p] # NoPrefix /\ fNamePrefix[q] # NoPrefix)
         => fNamePrefix[p] # fNamePrefix[q]
  /\ \A p \in DOMAIN pc :
       fNamePrefix[p] # NoPrefix
         => /\ Exists(FileName(fNamePrefix[p], suffixReqHeaders))
            /\ fs[FileName(fNamePrefix[p], suffixReqHeaders)] # <<"old">>

\* two calls sampled the same timestamp, whose counter 0 was taken by an earlier
\* run, and both returned
C1_Witness ==
  \E p, q \in DOMAIN pc :
    /\ p # q
    /\ fNamePrefix[p] # NoPrefix /\ fNamePrefix[q] # NoPrefix
    /\ datePrefix[p] = datePrefix[q]
    /\ Exists(Sentinel(datePrefix[p], 0)) /\ fs[Sentinel(datePrefix[p], 0)] = <<"old">>

\* C2 (as claimed): w.WriteHeader is called at most once in every execution of
\* the handler.
C2_SingleWriteHeader == \A p \in DOMAIN pc : w[p].calls <= 1

\* C3: when httpClient.Do fails the client receives 502, and the one summary
\* line of the request reports 502 with the (non-empty) prefix fname returned.
C3_DispatchFailure ==
  \A p \in DOMAIN pc :
    failure[p] = "do"
      => /\ pc[p] = "done"
         /\ w[p].wroteHeader /\ w[p].status = 502 /\ w[p].calls = 1
         /\ Summaries(p) = <<SummaryLine(502, PrefixOf(datePrefix[p], idx[p]))>>
         /\ Summaries(p)[1].fNamePrefix # NoPrefix
         /\ Exists(ReqBodyFile(p)) /\ Exists(ReqHeadersFile(p))

\* the dispatch failed after the transport had read some of the request body
C3_Witness == \E p \in DOMAIN pc : failure[p] = "do" /\ cr[p].read # <<>>

\* C4 (as claimed): when the sentinel cannot be created for a reason other than
\* "file exists", the handler ends by returning, the client has received 500,
\* and no handle is open.
C4_UnwritableDirectory ==
  \A p \in DOMAIN pc :
    failure[p] = "fname_open"
      => pc[p] = "done" /\ w[p].status = 500 /\ open[p] = {}

ReachedResponseBody(p) ==
  failure[p] \in {"none", "resp_body_create", "resp_body_read",
                  "resp_body_file_write", "resp_body_client_write"}

\* C5 (as claimed): when a handler that reached processResponseBody has ended,
\* the response-body capture file holds exactly the bytes written to the client.
C5_CaptureEqualsClient ==
  \A p \in DOMAIN pc :
    (Ended(p) /\ ReachedResponseBody(p)) => Written(RespBodyFile(p)) = w[p].body

\* C5 (amended): when a handler that reached processResponseBody has ended, the
\* bytes written to the client are a prefix of the bytes written to the
\* response-body capture file; the two are equal when the relay completed, when
\* the capture file could not be created and when a Read failed.
C5_ClientIsPrefixOfCapture ==
  \A p \in DOMAIN pc :
    (Ended(p) /\ ReachedResponseBody(p))
      => /\ IsPrefixOf(w[p].body, Written(RespBodyFile(p)))
         /\ failure[p] \in {"none", "resp_body_create", "resp_body_read"}
              => Written(RespBodyFile(p)) = w[p].body

\* a client write failed after an earlier chunk had reached the client: the
\* capture file holds more than the client got
C5_Witness ==
  \E p \in DOMAIN pc :
    /\ Ended(p) /\ failure[p] = "resp_body_client_write"
    /\ w[p].body # <<>>
    /\ Written(RespBodyFile(p)) # w[p].body

\* C6: in every state the request-body capture file holds exactly the bytes the
\* outbound request has read from the tee reader.
C6_RequestBodyCapture ==
  \A p \in DOMAIN pc : Written(ReqBodyFile(p)) = cr[p].read

\* a write to the capture file failed part-way: the part that reached the file
\* was handed on, the rest of the chunk was not
C6_Witness ==
  \E p \in DOMAIN pc :
    /\ cr[p].bodyErr /\ cr[p].read # <<>>
    /\ Len(cr[p].read) + Len(r[p].Body) < MaxBody

LocalFailuresBeforeStatus ==
  {"fname_close", "create_req_body", "new_request", "create_req_headers", "req_line",
   "req_headers", "resp_headers_create", "resp_status_line", "resp_headers"}

\* C7 (as claimed): a failed dispatch yields 502, every local failure (before a
\* status was sent) yields 500, and the handler sends 502 of its own for nothing
\* but a failed dispatch.
C7_ErrorStatusClassifies ==
  \A p \in DOMAIN pc :
    pc[p] = "done"
      => /\ failure[p] = "do" => w[p].status = 502
         /\ failure[p] \in LocalFailuresBeforeStatus => w[p].status = 500
         /\ (failure[p] # "none" /\ statusCode[p] = 502) => failure[p] = "do"

\* C8 (as claimed): every execution of the handler that has ended has emitted
\* exactly one summary line.
C8_OneSummaryLine == \A p \in DOMAIN pc : Ended(p) => Len(Summaries(p)) = 1

\* C9 (as claimed): the prefix in the summary line is empty exactly when fname
\* failed (it panicked, or it reported the error of closing the sentinel).
C9_EmptyPrefixIffAllocationFailed ==
  \A p \in DOMAIN pc :
    \A i \in 1..Len(Summaries(p)) :
      (Summaries(p)[i].fNamePrefix = NoPrefix)
        <=> (failure[p] \in {"fname_open", "fname_close"})

\* C10 (as claimed): when a capture write or a client write fails during the body
\* relay, the client keeps the upstream status it was sent and the summary line
\* reports that status.
C10_StreamingFailureKeepsStatus ==
  \A p \in DOMAIN pc :
    (Ended(p) /\ failure[p] \in {"resp_body_file_write", "resp_body_client_write"})
      => /\ w[p].status = resp[p].StatusCode
         /\ Len(Summaries(p)) = 1
         /\ Summaries(p)[1].statusCode = w[p].status

\* C11: when the handler has returned, by whichever return statement, no capture
\* file it opened and no upstream response body is open any more.
C11_AllHandlesClosed == \A p \in DOMAIN pc : pc[p] = "done" => open[p] = {}

\* the handler returned after it had opened all five capture files and had got
\* an upstream response
C11_Witness ==
  \E p \in DOMAIN pc :
    /\ pc[p] = "done"
    /\ failure[p] \in {"none", "resp_body_client_write"}
    /\ resp[p] # NoResp
    /\ defers[p] = <<"reqBodyFile", "cr.Body", "reqHeadersFile", "resp.Body">>
    /\ Exists(RespHeadersFile(p)) /\ Exists(RespBodyFile(p))

\* the upstream status has been written to the client (the handler is relaying
\* the body, or has finished or failed doing so)
Relayed(p) == w[p].wroteHeader /\ ReachedResponseBody(p)

\* C12: Do sends at most one request upstream for an inbound request, whether
\* it fails or is answered, also by a 3xx; the response the handler works on and
\* the status relayed to the client are those of the first upstream answer.
C12_SingleDispatch ==
  \A p \in DOMAIN pc :
    /\ cr[p].sent <= 1
    /\ resp[p] # NoResp => resp[p].StatusCode = cr[p].first
    /\ Relayed(p) => w[p].status = cr[p].first

\* the upstream answered 302 and the client got 302
C12_Witness ==
  \E p \in DOMAIN pc :
    /\ pc[p] = "done" /\ failure[p] = "none"
    /\ cr[p].sent = 1 /\ cr[p].first \in RedirectStatuses
    /\ w[p].status = cr[p].first

\* the outbound request has been handed to httpClient.Do
Dispatched(p) == TransportActive(p) \/ cr[p].sent >= 1

\* C13: the request handed to Do carries, for every key, the list of values of
\* the inbound request, and the response relayed to the client carries, for every
\* key, the list of values of the upstream response: same values, same order,
\* same multiplicity, no key more or less.
C13_HeadersPreserved ==
  \A p \in DOMAIN pc :
    /\ Dispatched(p) => \A k \in Keys : cr[p].Header[k] = r[p].Header[k]
    /\ Relayed(p) => \A k \in Keys : w[p].sentHeader[k] = resp[p].Header[k]

\* a request with two values under one key was answered by a response with two
\* keys, and the response has been relayed
C13_Witness ==
  \E p \in DOMAIN pc :
    /\ Relayed(p) /\ pc[p] = "done"
    /\ Len(r[p].Header["A"]) = 2
    /\ Len(resp[p].Header["A"]) = 1 /\ Len(resp[p].Header["B"]) = 1

\* the four capture files of a prefix
CaptureFiles(prefix) ==
  {FileName(prefix, sfx) :
     sfx \in {suffixReqHeaders, suffixReqBody, suffixRespHeaders, suffixRespBody}}

\* the prefix a request holds: the one whose sentinel it created (fname may not
\* have returned it yet), NoPrefix when it holds none
Allocated(p) ==
  IF pc[p] = "fname_close" THEN PrefixOf(datePrefix[p], idx[p]) ELSE fNamePrefix[p]

\* the request p takes the step
Steps(p) ==
  <<pc[p], idx[p], r[p], cr[p], loop[p], buf[p], w[p]>>'
    # <<pc[p], idx[p], r[p], cr[p], loop[p], buf[p], w[p]>>

\* the files the step creates or whose content it changes
Touched == {n \in DOMAIN fs' : n \notin DOMAIN fs \/ fs'[n] # fs[n]}

\* C14: a request that has completed successfully has exactly the four capture
\* files under its prefix; and every step that creates a file or changes the
\* content of one is a step of a request on a file under the prefix it holds
\* after the step, which no other request holds.
C14_OwnFilesOnly ==
  /\ [](\A p \in DOMAIN pc :
          (pc[p] = "done" /\ failure[p] = "none")
            => {n \in DOMAIN fs : n[1] = fNamePrefix[p]} = CaptureFiles(fNamePrefix[p]))
  /\ [][\A n \in Touched :
          \E p \in DOMAIN pc :
            /\ Steps(p)
            /\ n[1] = Allocated(p)'
            /\ \A q \in DOMAIN pc \ {p} : Allocated(q) # n[1]]_vars

\* two requests that sampled the same timestamp have both completed
C14_Witness ==
  \E p, q \in DOMAIN pc :
    /\ p # q /\ datePrefix[p] = datePrefix[q]
    /\ pc[p] = "done" /\ failure[p] = "none"
    /\ pc[q] = "done" /\ failure[q] = "none"
    /\ fs[RespBodyFile(p)] # <<>> /\ fs[RespBodyFile(q)] # <<>>

\* C15 (as claimed): fname makes at most MaxAttempts create attempts: after that
\* many "file already exists" failures it is not at os.OpenFile again.
C15_RetryBounded == \A p \in DOMAIN pc : pc[p] = "fname_open" => idx[p] < MaxAttempts

\* C16: in every state of a request, the bytes written to the client are a
\* prefix of the content of the response-body capture file, and the bytes handed
\* to the outbound request are a prefix of the content of the request-body
\* capture file.
C16_CapturePrecedesForwarding ==
  \A p \in DOMAIN pc :
    /\ IsPrefixOf(w[p].body, Written(RespBodyFile(p)))
    /\ IsPrefixOf(cr[p].read, Written(ReqBodyFile(p)))

\* in the middle of the relay: a first chunk has reached the client, the second
\* is in the capture file and not yet written to the client, while the transport
\* has taken a part of the request body
C16_Witness ==
  \E p \in DOMAIN pc :
    /\ pc[p] = "resp_body_client_write"
    /\ w[p].body # <<>>
    /\ Len(Written(RespBodyFile(p))) > Len(w[p].body)
    /\ cr[p].read # <<>> /\ r[p].Body # <<>>

\* the lines of the response-headers capture file
RespHeaderLines(p) == Range(Written(RespHeadersFile(p)))

\* C17: when the upstream status has been written to the client, every value of
\* every upstream header had been added to the client-facing headers before
\* (it went out with the status) and has its line in the response-headers
\* capture file, after the status line; and once any status has been written,
\* the client-facing headers are those that went out with it: none is added.
C17_StatusAfterHeaders ==
  \A p \in DOMAIN pc :
    /\ Relayed(p)
         => /\ w[p].status = resp[p].StatusCode
            /\ w[p].sentHeader = resp[p].Header
            /\ Written(RespHeadersFile(p))[1] = <<"status-line", resp[p].StatusCode>>
            /\ \A k \in Keys : \A i \in 1..Len(resp[p].Header[k]) :
                 <<k, resp[p].Header[k][i]>> \in RespHeaderLines(p)
            /\ Len(Written(RespHeadersFile(p)))
                 = 1 + Len(resp[p].Header["A"]) + Len(resp[p].Header["B"])
    /\ w[p].wroteHeader => w[p].header = w[p].sentHeader

\* the status of a response with headers under two keys has just been written:
\* the body relay has not begun
C17_Witness ==
  \E p \in DOMAIN pc :
    /\ pc[p] = "resp_body_create" /\ w[p].wroteHeader
    /\ resp[p].Header["A"] # <<>> /\ resp[p].Header["B"] # <<>>

\* the counters of timestamp t whose sentinel was in the directory from the start
OldCounters(t) ==
  {i \in 0..(MaxPre - 1) : Exists(Sentinel(t, i)) /\ fs[Sentinel(t, i)] = <<"old">>}

\* the fname() call of p is over: it returned or it panicked
FnameOver(p) == pc[p] \notin {"fname", "fname_open", "fname_close"}

\* C18: under fair scheduling every fname() call ends, and at no time has a call
\* made more "file already exists" retries (idx counts them) than there were
\* sentinels for its timestamp at the start plus other callers.
C18_FnameTerminates ==
  /\ [](\A p \in DOMAIN pc :
          idx[p] <= Cardinality(OldCounters(datePrefix[p])) + Cardinality(DOMAIN pc) - 1)
  /\ \A p \in Callers : <>FnameOver(p)

\* a call has returned after as many retries as the bound allows: one for the old
\* sentinel of its timestamp and one for each other caller
C18_Witness ==
  \E p \in DOMAIN pc :
    /\ pc[p] = "create_req_body"
    /\ OldCounters(datePrefix[p]) # {}
    /\ idx[p] = Cardinality(OldCounters(datePrefix[p])) + Cardinality(DOMAIN pc) - 1

\* the counters that have a sentinel file for timestamp t
CountersOf(t) == {n[1][2] : n \in {m \in DOMAIN fs : m = Sentinel(t, m[1][2])}}

\* C19: no step removes a file; for a timestamp that had no sentinel at the
\* start, the counters that have a sentinel are always 0..k-1 for some k; and a
\* create-exclusive attempt that succeeds is made at the smallest counter that
\* has no sentinel at that moment, which is the counter fname then returns.
C19_DenseCounters ==
  /\ [](\A t \in Times :
          OldCounters(t) = {} => CountersOf(t) = 0..(Cardinality(CountersOf(t)) - 1))
  /\ [][/\ DOMAIN fs \subseteq DOMAIN fs'
        /\ \A p \in DOMAIN pc :
             (pc[p] = "fname_open" /\ pc'[p] = "fname_close")
               => /\ idx[p] \notin CountersOf(datePrefix[p])
                  /\ \A j \in 0..(idx[p] - 1) : j \in CountersOf(datePrefix[p])
                  /\ Allocated(p)' = PrefixOf(datePrefix[p], idx[p])]_vars

\* two calls sampled a timestamp that had no sentinel at the start, and both
\* have returned: the counters 0 and 1 are taken
C19_Witness ==
  \E p, q \in DOMAIN pc :
    /\ p # q /\ datePrefix[p] = datePrefix[q]
    /\ OldCounters(datePrefix[p]) = {}
    /\ pc[p] = "create_req_body" /\ pc[q] = "create_req_body"
    /\ CountersOf(datePrefix[p]) = {0, 1}

\* C20 (as claimed): when the handler has answered 500 because
\* processResponseHeaders failed, the response the client got carries no upstream
\* header.
C20_InternalErrorWithoutUpstreamHeaders ==
  \A p \in DOMAIN pc :
    (pc[p] = "done"
       /\ failure[p] \in {"resp_headers_create", "resp_status_line", "resp_headers"})
      => /\ w[p].status = StatusInternalServerError
         /\ w[p].sentHeader = EmptyHeader

=============================================================================
